---- MODULE Spec2Model ----
(***************************************************************************)
(* Model of excel/union_sheets.py: union_sheets_concurrent, its worker      *)
(* process_sheet_task, and the ThreadPoolExecutor / as_completed machinery  *)
(* it is written against.  The store is the DuckDB database shared by the   *)
(* coordinator's connection and the workers' connections.                   *)
(***************************************************************************)
EXTENDS Integers, Sequences, FiniteSets, TLC

\* ---------------------------------------------------------------- bounds
MaxSheets == 2      \* a workbook has 0..MaxSheets sheets
MaxWorkers == 2     \* the max_workers argument ranges over -1..MaxWorkers
MaxRows == 1        \* a sheet has 0..MaxRows rows after projection
MaxClock == 1       \* time.time() * 1000 ranges over 0..MaxClock
MaxCalls == 2       \* calls of union_sheets_concurrent on one store
MaxDedupRows == 3   \* the input relation of unique_keys has 0..MaxDedupRows rows
MaxApplications == 2  \* unique_keys is applied to its own result up to this often
MaxFiles == 6       \* parent_dir holds up to MaxFiles of the output files of an entry
MaxKeyLen == 2      \* a registered key has 0..MaxKeyLen characters, a name one more
MaxHandlers == 2    \* the registry holds 0..MaxHandlers keys
MaxSeqSheets == 4   \* sheets of a workbook merged by both union_sheets and the concurrent merge
MaxEntries == 3     \* entry directories listed by main

\* ------------------------------------------------------- program constants
SuffixMod == 10000  \* temp_sheet_{index}_{ms % 10000}
UnionAllLimit == 3  \* union_sheets: more sheets than this are merged by INSERTs

\* ----------------------------------------------------------------- values
None == [none |-> TRUE]
NoSheet == 0 - 1
StaleRow == 0 - 1   \* tag of a row that was in the store before the call
NULL == 0           \* SQL NULL, the value read_xlsx gives an empty cell

\* The destination relation's name (argument table_name).
table_name == <<"table_name">>

temp_table_name_Destination(sheet_index, ms) == table_name

\* f"temp_sheet_{sheet_index}_{int(time.time() * 1000) % 10000}"
temp_table_name(sheet_index, ms) == <<"temp_sheet", sheet_index, ms % SuffixMod>>

IsStaging(nm) == nm[1] = "temp_sheet"

\* Rows of sheet i after projection: r rows, each tagged with its sheet.
SheetRows(i, r) == [k \in 1..r |-> i]

\* The kinds of failure of the worker's CREATE TABLE ... read_xlsx statement.
WorkerFailures == {"SourceReadError", "ProjectionError"}

\* str(e) of a worker's exception: a read error's text names the sheet that
\* could not be read, a projection (binder) error's text names only the
\* missing column, a catalog error's text names the staging relation.
WorkerException(kind, i) ==
  [kind |-> kind,
   names |-> IF kind = "ProjectionError" THEN NoSheet ELSE i]

VARIABLES
  pc,                  \* position of union_sheets_concurrent
  sheet_names,         \* get_sheet_names(excel_file)
  max_workers,         \* argument, reassigned at line 204
  store,               \* relation name -> rows, for the relations that exist
  store0,              \* the store when the call began
  now,                 \* the last reading of the clock, in ms
  future_to_sheet,     \* sheet_index -> future (state, result, exception)
  work_queue,          \* executor._work_queue
  threads,             \* work items held by a worker thread
  num_threads,         \* len(executor._threads)
  idle_semaphore,      \* executor._idle_semaphore
  task,                \* sheet_index -> position and locals of process_sheet_task
  early,               \* as_completed: futures finished when it was entered
  finished_futures,    \* as_completed: waiter.finished_futures, in completion order
  yielded,             \* futures as_completed has yielded
  future,              \* loop variable of the merge loop
  completed_sheets,
  temp_tables,
  total_rows,
  first_table_created,
  e,                   \* the exception caught at line 332
  raised,              \* the exception the call raised, if any
  excel_file,          \* what the path excel_file leads to
  columns,             \* relation name -> column names, where schemas differ
  calls,               \* call -> sheet_index -> staging name and its fate
  projections,         \* argument of unique_keys
  input_table,         \* argument table_name of unique_keys
  ukpc,                \* position of unique_keys
  files,               \* the paths that exist in parent_dir
  output_excel,        \* select_output_excel: the candidate path
  idx,                 \* select_output_excel: the next suffix
  sopc,                \* position of select_output_excel
  entry_name,          \* handle_entry: argument
  entry_registry,      \* handle_entry: the registered keys, in registration order
  handler,             \* handle_entry: << >> for None, or <<key>> of the handler
  handler_raises,      \* whether the handlers raise when they are called
  handler_calls,       \* the keys of the handlers called so far
  hepc,                \* position of handle_entry
  uspc,                \* position of union_sheets (the sequential merge)
  us_i,                \* union_sheets: loop variable i of the batch-INSERT mode
  entries,             \* main: what handling each entry directory does
  entry_i,             \* main: loop variable i of the batch loop
  processed_count,     \* main: entries handled without an exception
  failed_count,        \* main: entries whose exception the loop caught
  attempted,           \* the entries the batch loop has taken, in order
  mainpc,              \* position of main
  done_order           \* the futures that finished before as_completed was
                       \* entered, in the order they finished

\* The variables the merge of one call does not touch.
selectVars == <<files, output_excel, idx, sopc>>

dispatchVars == <<entry_name, entry_registry, handler, handler_raises,
                  handler_calls, hepc>>

sequentialVars == <<uspc, us_i>>

batchVars == <<entries, entry_i, processed_count, failed_count, attempted,
               mainpc>>

operatorVars == <<selectVars, dispatchVars, sequentialVars, batchVars>>

otherVars == <<excel_file, columns, calls, projections, input_table, ukpc,
               operatorVars>>

extVars == <<otherVars, done_order>>

vars == <<pc, sheet_names, max_workers, store, store0, now, future_to_sheet,
          work_queue, threads, num_threads, idle_semaphore, task, early,
          finished_futures, yielded, future, completed_sheets, temp_tables,
          total_rows, first_table_created, e, raised, extVars>>

coordVars == <<pc, max_workers, early, yielded, future, completed_sheets,
               temp_tables, total_rows, first_table_created, e, raised>>

\* enumerate(sheet_names)
Idx == 0 .. (Len(sheet_names) - 1)

Exists(nm) == nm \in DOMAIN store

Drop(st, names) == [nm \in (DOMAIN st) \ names |-> st[nm]]

Put(st, nm, rows) == [x \in (DOMAIN st) \cup {nm} |-> IF x = nm THEN rows ELSE st[x]]

Range(s) == {s[k] : k \in 1..Len(s)}

\* excel_operator's functions before they are called.
InitOperator ==
  /\ files = {}
  /\ output_excel = <<>>
  /\ idx = 0
  /\ sopc = "idle"
  /\ entry_name = <<>>
  /\ entry_registry = <<>>
  /\ handler = <<>>
  /\ handler_raises = FALSE
  /\ handler_calls = <<>>
  /\ hepc = "idle"
  /\ uspc = "idle"
  /\ us_i = 0
  /\ entries = <<>>
  /\ entry_i = 0
  /\ processed_count = 0
  /\ failed_count = 0
  /\ attempted = <<>>
  /\ mainpc = "idle"

\* The merge's variables when union_sheets_concurrent is entered.
InitMerge ==
  /\ pc = "get_sheet_names"
  /\ \E n \in 0..MaxSheets : sheet_names = [k \in 1..n |-> k - 1]
  /\ max_workers \in (0 - 1)..MaxWorkers
  /\ store \in {Drop(<<>>, {1}), Put(Drop(<<>>, {1}), table_name, <<StaleRow>>)}
  /\ store0 = store
  /\ now = 0
  /\ future_to_sheet = <<>>
  /\ work_queue = <<>>
  /\ threads = {}
  /\ num_threads = 0
  /\ idle_semaphore = 0
  /\ task = [i \in Idx |-> [pc |-> "idle", temp_table |-> None]]
  /\ early = {}
  /\ finished_futures = <<>>
  /\ yielded = {}
  /\ future = NoSheet
  /\ completed_sheets = <<>>
  /\ temp_tables = <<>>
  /\ total_rows = 0
  /\ first_table_created = FALSE
  /\ e = None
  /\ raised = None
  /\ done_order = <<>>

Init ==
  /\ InitMerge
  /\ excel_file = "readable"
  /\ columns = <<>>
  /\ calls = <<>>
  /\ projections = <<>>
  /\ input_table = table_name
  /\ ukpc = "idle"
  /\ InitOperator

\* ------------------------------------------------------------ coordinator

SkipsEmpty_Never(names) == FALSE

\* line 200: if not sheet_names
SkipsEmpty(names) == Len(names) = 0

EnumerationRaises_OnlyMissing(file) == file = "missing"

\* get_sheet_names, lines 166-176: it raises when the path does not exist
\* and when load_workbook cannot read the file
EnumerationRaises(file) == file # "readable"

\* lines 198-238: enumerate the sheets; an empty workbook is skipped; the
\* concurrency is clamped to the number of sheets.
GetSheetNames ==
  /\ pc = "get_sheet_names"
  /\ ~ EnumerationRaises(excel_file)
  /\ IF SkipsEmpty(sheet_names)
       THEN /\ pc' = "returned"
            /\ UNCHANGED max_workers
       ELSE /\ pc' = "drop_existing"
            /\ max_workers' = IF max_workers > Len(sheet_names)
                                THEN Len(sheet_names) ELSE max_workers
  /\ UNCHANGED <<sheet_names, store, store0, now, future_to_sheet, work_queue,
                 threads, num_threads, idle_semaphore, task, early,
                 finished_futures, yielded, future, completed_sheets,
                 temp_tables, total_rows, first_table_created, e, raised>>
  /\ UNCHANGED extVars

DropExisting_Skipped ==
  /\ pc = "drop_existing"
  /\ pc' = "executor"
  /\ UNCHANGED <<sheet_names, max_workers, store, store0, now,
                 future_to_sheet, work_queue, threads, num_threads,
                 idle_semaphore, task, early, finished_futures, yielded,
                 future, completed_sheets, temp_tables, total_rows,
                 first_table_created, e, raised, extVars>>

\* lines 286-296: DROP TABLE IF EXISTS {table_name}
DropExisting ==
  /\ pc = "drop_existing"
  /\ store' = Drop(store, {table_name})
  /\ pc' = "executor"
  /\ UNCHANGED <<sheet_names, max_workers, store0, now, future_to_sheet,
                 work_queue, threads, num_threads, idle_semaphore, task, early,
                 finished_futures, yielded, future, completed_sheets,
                 temp_tables, total_rows, first_table_created, e, raised>>
  /\ UNCHANGED extVars

\* ThreadPoolExecutor.__init__: "max_workers must be greater than 0"
ExecutorAccepts(mw) == mw > 0

\* line 298: with ThreadPoolExecutor(max_workers=max_workers) as executor
NewExecutor ==
  /\ pc = "executor"
  /\ IF ExecutorAccepts(max_workers)
       THEN /\ pc' = "submit"
            /\ UNCHANGED raised
       ELSE /\ pc' = "raised"
            /\ raised' = [type |-> "ValueError", message |-> None]
  /\ UNCHANGED <<sheet_names, max_workers, store, store0, now, future_to_sheet,
                 work_queue, threads, num_threads, idle_semaphore, task, early,
                 finished_futures, yielded, future, completed_sheets,
                 temp_tables, total_rows, first_table_created, e>>
  /\ UNCHANGED extVars

SpawnsThread_Always(nt, mw) == TRUE

\* _adjust_thread_count: if num_threads < self._max_workers
SpawnsThread(nt, mw) == nt < mw

NewFuture(i) ==
  [state |-> "PENDING", result |-> None, exception |-> None, sheet_name |-> sheet_names[i + 1]]

\* lines 300-303: executor.submit for the next sheet.  submit puts the work
\* item on the queue and _adjust_thread_count starts a thread unless an
\* idle one is available or max_workers threads exist.
Submit ==
  /\ pc = "submit"
  /\ LET i == Len(future_to_sheet) IN
       /\ i < Len(sheet_names)
       /\ future_to_sheet' = [k \in 1..(i + 1) |->
                                IF k = i + 1 THEN NewFuture(i) ELSE future_to_sheet[k]]
       /\ work_queue' = Append(work_queue, i)
       /\ IF idle_semaphore > 0
            THEN /\ idle_semaphore' = idle_semaphore - 1
                 /\ UNCHANGED num_threads
            ELSE /\ num_threads' = IF SpawnsThread(num_threads, max_workers)
                                     THEN num_threads + 1 ELSE num_threads
                 /\ UNCHANGED idle_semaphore
  /\ UNCHANGED <<pc, sheet_names, max_workers, store, store0, now, threads,
                 task, early, finished_futures, yielded, future,
                 completed_sheets, temp_tables, total_rows,
                 first_table_created, e, raised>>
  /\ UNCHANGED extVars

\* The future of sheet index i (future_to_sheet is kept as a sequence).
Fut(i) == future_to_sheet[i + 1]

Submitted == 0 .. (Len(future_to_sheet) - 1)

Done(i) == Fut(i).state \in {"FINISHED", "CANCELLED"}

\* line 307: as_completed(future_to_sheet) is entered once every sheet is
\* submitted; the futures already finished are yielded first, in no order.
AsCompleted ==
  /\ pc = "submit"
  /\ Len(future_to_sheet) = Len(sheet_names)
  /\ early' = {i \in Submitted : Done(i)}
  /\ pc' = "wait"
  /\ UNCHANGED <<sheet_names, max_workers, store, store0, now, future_to_sheet,
                 work_queue, threads, num_threads, idle_semaphore, task,
                 finished_futures, yielded, future, completed_sheets,
                 temp_tables, total_rows, first_table_created, e, raised>>
  /\ UNCHANGED extVars

WaiterInstalled_Never == FALSE

\* The waiter of as_completed records the futures that finish while the
\* merge loop runs.
WaiterInstalled == pc \in {"wait", "fold", "except"}

\* --------------------------------------------------------------- workers

\* _worker: work_queue.get by a thread that holds no work item
WorkerGet ==
  /\ work_queue # <<>>
  /\ Cardinality(threads) < num_threads
  /\ threads' = threads \cup {Head(work_queue)}
  /\ work_queue' = Tail(work_queue)
  /\ UNCHANGED <<sheet_names, store, store0, now, future_to_sheet, num_threads,
                 idle_semaphore, task, finished_futures>>
  /\ UNCHANGED coordVars
  /\ UNCHANGED extVars

SetFuture(i, f) == [future_to_sheet EXCEPT ![i + 1] = f]

\* _WorkItem.run: set_running_or_notify_cancel; a cancelled item is skipped.
\* lines 242-244: the staging name is taken from the clock, which has
\* advanced by any amount since it was last read.
WorkerRun(i) ==
  /\ i \in threads
  /\ task[i].pc = "idle"
  /\ IF Fut(i).state = "PENDING"
       THEN /\ \E ms \in now..MaxClock :
                 /\ now' = ms
                 /\ task' = [task EXCEPT ![i] = [pc |-> "create",
                                                 temp_table |-> temp_table_name(i, ms)]]
            /\ future_to_sheet' = SetFuture(i, [Fut(i) EXCEPT !.state = "RUNNING"])
            /\ UNCHANGED <<threads, idle_semaphore>>
       ELSE /\ Fut(i).state = "CANCELLED"
            /\ threads' = threads \ {i}
            /\ idle_semaphore' = idle_semaphore + 1
            /\ task' = [task EXCEPT ![i].pc = "skipped"]
            /\ UNCHANGED <<future_to_sheet, now>>
  /\ UNCHANGED <<sheet_names, store, store0, work_queue, num_threads,
                 finished_futures>>
  /\ UNCHANGED coordVars
  /\ UNCHANGED extVars

\* Future.set_result / set_exception: the future is finished and the
\* waiters are notified.
Finish(i, res, exc) ==
  /\ future_to_sheet' = SetFuture(i, [Fut(i) EXCEPT !.state = "FINISHED",
                                                    !.result = res,
                                                    !.exception = exc])
  /\ finished_futures' = IF WaiterInstalled
                           THEN Append(finished_futures, i) ELSE finished_futures
  /\ done_order' = IF pc = "submit" THEN Append(done_order, i) ELSE done_order
  /\ threads' = threads \ {i}
  /\ idle_semaphore' = idle_semaphore + 1

\* lines 246-268: CREATE TABLE {temp_table} AS SELECT ... FROM read_xlsx(...).
\* The statement fails when the sheet cannot be read, when the projection
\* names a missing column, or when a relation of that name exists.
WorkerCreate(i) ==
  /\ i \in threads
  /\ task[i].pc = "create"
  /\ \/ \E r \in 0..MaxRows :
          /\ ~ Exists(task[i].temp_table)
          /\ store' = Put(store, task[i].temp_table, SheetRows(i, r))
          /\ task' = [task EXCEPT ![i].pc = "count"]
          /\ UNCHANGED <<future_to_sheet, finished_futures, threads,
                         idle_semaphore, done_order>>
     \/ \E kind \in WorkerFailures \cup {"CatalogError"} :
          /\ kind = "CatalogError" => Exists(task[i].temp_table)
          /\ task' = [task EXCEPT ![i].pc = "exit"]
          /\ Finish(i, None, WorkerException(kind, i))
          /\ UNCHANGED store
  /\ UNCHANGED <<sheet_names, store0, now, work_queue, num_threads>>
  /\ UNCHANGED coordVars
  /\ UNCHANGED otherVars

\* lines 270-284: SELECT COUNT(*), close the connection, return the result
WorkerReturn(i) ==
  /\ i \in threads
  /\ task[i].pc = "count"
  /\ task' = [task EXCEPT ![i].pc = "exit"]
  /\ Finish(i, [sheet_name |-> Fut(i).sheet_name,
                sheet_index |-> i,
                temp_table |-> task[i].temp_table,
                row_count |-> Len(store[task[i].temp_table])], None)
  /\ UNCHANGED <<sheet_names, store, store0, now, work_queue, num_threads>>
  /\ UNCHANGED coordVars
  /\ UNCHANGED otherVars

\* ------------------------------------------------------------ merge loop

NextCompleted_Unordered == {i \in Submitted : Done(i)} \ yielded

\* The futures as_completed may yield next: those finished at entry, in any
\* order, then the others in the order they finished.
NextCompleted ==
  IF early \ yielded # {}
    THEN early \ yielded
    ELSE IF finished_futures # <<>> THEN {Head(finished_futures)} ELSE {}

\* lines 307-314: the next completed future is yielded; future.result()
\* returns the worker's result or raises the worker's exception.
Consume ==
  /\ pc = "wait"
  /\ \E f \in NextCompleted :
       /\ future' = f
       /\ yielded' = yielded \cup {f}
       /\ finished_futures' = IF f \in early THEN finished_futures
                                             ELSE Tail(finished_futures)
       /\ IF Fut(f).exception # None
            THEN /\ e' = Fut(f).exception
                 /\ pc' = "except"
                 /\ UNCHANGED <<completed_sheets, temp_tables, total_rows>>
            ELSE /\ completed_sheets' = Append(completed_sheets, Fut(f).result)
                 /\ temp_tables' = Append(temp_tables, Fut(f).result.temp_table)
                 /\ total_rows' = total_rows + Fut(f).result.row_count
                 /\ pc' = "fold"
                 /\ UNCHANGED e
  /\ UNCHANGED <<sheet_names, max_workers, store, store0, now, future_to_sheet,
                 work_queue, threads, num_threads, idle_semaphore, task, early,
                 first_table_created, raised>>
  /\ UNCHANGED extVars

\* The result the merge loop is folding.
result == completed_sheets[Len(completed_sheets)]

\* str(e) of a failed CREATE / INSERT of the merge loop
FoldException == [kind |-> "FoldError", names |-> NoSheet]

\* lines 316-323: CREATE TABLE {table_name} AS SELECT * FROM {temp_table};
\* a failed statement leaves no relation behind.
FoldCreate ==
  /\ pc = "fold"
  /\ ~ first_table_created
  /\ \/ /\ Exists(result.temp_table)
        /\ ~ Exists(table_name)
        /\ store' = Put(store, table_name, store[result.temp_table])
        /\ first_table_created' = TRUE
        /\ pc' = "wait"
        /\ UNCHANGED e
     \/ /\ e' = FoldException
        /\ pc' = "except"
        /\ UNCHANGED <<store, first_table_created>>
  /\ UNCHANGED <<sheet_names, max_workers, store0, now, future_to_sheet,
                 work_queue, threads, num_threads, idle_semaphore, task, early,
                 finished_futures, yielded, future, completed_sheets,
                 temp_tables, total_rows, raised>>
  /\ UNCHANGED extVars

Inserted_Lost(dst, src) == dst

\* INSERT INTO dst SELECT * FROM src: the rows of src are appended
Inserted(dst, src) == dst \o src

\* lines 324-330: INSERT INTO {table_name} SELECT * FROM {temp_table};
\* a failed statement inserts nothing.
FoldInsert ==
  /\ pc = "fold"
  /\ first_table_created
  /\ \/ /\ Exists(result.temp_table)
        /\ Exists(table_name)
        /\ store' = Put(store, table_name, Inserted(store[table_name], store[result.temp_table]))
        /\ pc' = "wait"
        /\ UNCHANGED e
     \/ /\ e' = FoldException
        /\ pc' = "except"
        /\ UNCHANGED store
  /\ UNCHANGED <<sheet_names, max_workers, store0, now, future_to_sheet,
                 work_queue, threads, num_threads, idle_semaphore, task, early,
                 finished_futures, yielded, future, completed_sheets,
                 temp_tables, total_rows, first_table_created, raised>>
  /\ UNCHANGED extVars

\* ------------------------------------------------------------ failure path

Cancel_Never(f) == f

\* Future.cancel: only a pending future is cancelled.
Cancel(f) == IF f.state = "PENDING" THEN [f EXCEPT !.state = "CANCELLED"] ELSE f

\* lines 332-336: cancel every future that is not done
ExceptCancel ==
  /\ pc = "except"
  /\ future_to_sheet' = [k \in DOMAIN future_to_sheet |-> Cancel(future_to_sheet[k])]
  /\ pc' = "drop_temp_tables"
  /\ UNCHANGED <<sheet_names, max_workers, store, store0, now, work_queue,
                 threads, num_threads, idle_semaphore, task, early,
                 finished_futures, yielded, future, completed_sheets,
                 temp_tables, total_rows, first_table_created, e, raised>>
  /\ UNCHANGED extVars

\* lines 338-343: DROP TABLE IF EXISTS for every name in temp_tables
ExceptDropTempTables ==
  /\ pc = "drop_temp_tables"
  /\ store' = Drop(store, Range(temp_tables))
  /\ pc' = "drop_table"
  /\ UNCHANGED <<sheet_names, max_workers, store0, now, future_to_sheet,
                 work_queue, threads, num_threads, idle_semaphore, task, early,
                 finished_futures, yielded, future, completed_sheets,
                 temp_tables, total_rows, first_table_created, e, raised>>
  /\ UNCHANGED extVars

DestinationToDrop_Kept == {}

\* The relations the failure path drops at lines 345-350.
DestinationToDrop == IF first_table_created THEN {table_name} ELSE {}

\* lines 345-350: DROP TABLE IF EXISTS {table_name} if it was created
ExceptDropTable ==
  /\ pc = "drop_table"
  /\ store' = Drop(store, DestinationToDrop)
  /\ pc' = "raise"
  /\ UNCHANGED <<sheet_names, max_workers, store0, now, future_to_sheet,
                 work_queue, threads, num_threads, idle_semaphore, task, early,
                 finished_futures, yielded, future, completed_sheets,
                 temp_tables, total_rows, first_table_created, e, raised>>
  /\ UNCHANGED extVars

ExceptExit_Swallowed == "returned"

\* line 352: the failure path ends in a raise
ExceptExit == "raised"

\* The exception raised at line 352: Exception(f"...: {str(e)}")
MergeFailed(exc) == [type |-> "Exception", message |-> exc]

\* line 352: the raise leaves the with block, whose exit is
\* executor.shutdown(wait=True): it returns when every thread has ended.
ExceptRaise ==
  /\ pc = "raise"
  /\ work_queue = <<>>
  /\ threads = {}
  /\ raised' = MergeFailed(e)
  /\ pc' = ExceptExit
  /\ UNCHANGED <<sheet_names, max_workers, store, store0, now, future_to_sheet,
                 work_queue, threads, num_threads, idle_semaphore, task, early,
                 finished_futures, yielded, future, completed_sheets,
                 temp_tables, total_rows, first_table_created, e>>
  /\ UNCHANGED extVars

\* ------------------------------------------------------------ success path

\* the merge loop ends when every future has been yielded; the with block
\* is left
LoopEnd ==
  /\ pc = "wait"
  /\ yielded = Idx
  /\ work_queue = <<>>
  /\ threads = {}
  /\ pc' = "cleanup"
  /\ UNCHANGED <<sheet_names, max_workers, store, store0, now, future_to_sheet,
                 work_queue, threads, num_threads, idle_semaphore, task, early,
                 finished_futures, yielded, future, completed_sheets,
                 temp_tables, total_rows, first_table_created, e, raised>>
  /\ UNCHANGED extVars

CleanupTempTables_None == {}

\* lines 355-360: the staging relations dropped after a successful merge
CleanupTempTables == Range(temp_tables)

\* lines 354-371: DROP TABLE IF EXISTS for every name in temp_tables, then
\* DESCRIBE {table_name}
Cleanup ==
  /\ pc = "cleanup"
  /\ store' = Drop(store, CleanupTempTables)
  /\ IF Exists(table_name)
       THEN /\ pc' = "returned"
            /\ UNCHANGED raised
       ELSE /\ pc' = "raised"
            /\ raised' = [type |-> "CatalogException", message |-> None]
  /\ UNCHANGED <<sheet_names, max_workers, store0, now, future_to_sheet,
                 work_queue, threads, num_threads, idle_semaphore, task, early,
                 finished_futures, yielded, future, completed_sheets,
                 temp_tables, total_rows, first_table_created, e>>
  /\ UNCHANGED extVars

Next ==
  \/ GetSheetNames
  \/ DropExisting
  \/ NewExecutor
  \/ Submit
  \/ AsCompleted
  \/ WorkerGet
  \/ \E i \in Idx : WorkerRun(i)
  \/ \E i \in Idx : WorkerCreate(i)
  \/ \E i \in Idx : WorkerReturn(i)
  \/ Consume
  \/ FoldCreate
  \/ FoldInsert
  \/ ExceptCancel
  \/ ExceptDropTempTables
  \/ ExceptDropTable
  \/ ExceptRaise
  \/ LoopEnd
  \/ Cleanup

Spec == Init /\ [][Next]_vars

\* The merge when the coordinator and every worker thread keep being
\* scheduled and every statement a worker executes ends: some step that can
\* be taken is eventually taken.
SpecLive == Init /\ [][Next]_vars /\ WF_vars(Next)
\* ------------------------------------------------- sheets of differing schema

\* The header rows a sheet may have: read_xlsx names the columns of the
\* staging relation after them (SELECT * when projections is None).
SheetSchemas == {<<"A", "B">>, <<"A", "C">>, <<"A">>}

SetColumns(nm, cols) ==
  [x \in (DOMAIN columns) \cup {nm} |-> IF x = nm THEN cols ELSE columns[x]]

\* lines 246-268 when the sheets' headers differ: CREATE TABLE {temp_table}
\* AS SELECT * FROM read_xlsx(...) takes its columns from the sheet.
WorkerCreateSchema(i) ==
  /\ i \in threads
  /\ task[i].pc = "create"
  /\ \/ \E r \in 0..MaxRows, cols \in SheetSchemas :
          /\ ~ Exists(task[i].temp_table)
          /\ store' = Put(store, task[i].temp_table, SheetRows(i, r))
          /\ columns' = SetColumns(task[i].temp_table, cols)
          /\ task' = [task EXCEPT ![i].pc = "count"]
          /\ UNCHANGED <<future_to_sheet, finished_futures, threads,
                         idle_semaphore, done_order>>
     \/ \E kind \in WorkerFailures \cup {"CatalogError"} :
          /\ kind = "CatalogError" => Exists(task[i].temp_table)
          /\ task' = [task EXCEPT ![i].pc = "exit"]
          /\ Finish(i, None, WorkerException(kind, i))
          /\ UNCHANGED <<store, columns>>
  /\ UNCHANGED <<sheet_names, store0, now, work_queue, num_threads>>
  /\ UNCHANGED coordVars
  /\ UNCHANGED <<excel_file, calls, projections, input_table, ukpc, operatorVars>>

\* lines 316-323: CREATE TABLE {table_name} AS SELECT * FROM {temp_table}
\* gives the destination the columns of the first staging relation.
FoldCreateSchema ==
  /\ pc = "fold"
  /\ ~ first_table_created
  /\ IF Exists(result.temp_table) /\ ~ Exists(table_name)
       THEN /\ store' = Put(store, table_name, store[result.temp_table])
            /\ columns' = SetColumns(table_name, columns[result.temp_table])
            /\ first_table_created' = TRUE
            /\ pc' = "wait"
            /\ UNCHANGED e
       ELSE /\ e' = FoldException
            /\ pc' = "except"
            /\ UNCHANGED <<store, columns, first_table_created>>
  /\ UNCHANGED <<sheet_names, max_workers, store0, now, future_to_sheet,
                 work_queue, threads, num_threads, idle_semaphore, task, early,
                 finished_futures, yielded, future, completed_sheets,
                 temp_tables, total_rows, raised>>
  /\ UNCHANGED <<excel_file, calls, projections, input_table, ukpc, operatorVars,
                 done_order>>

\* INSERT INTO dst SELECT * FROM src binds the columns by position: the
\* statement is accepted when both have the same number of columns (every
\* column is VARCHAR, all_varchar=true), whatever their names.
InsertAccepts(dstCols, srcCols) == Len(dstCols) = Len(srcCols)

\* lines 324-330 when the sheets' headers differ
FoldInsertSchema ==
  /\ pc = "fold"
  /\ first_table_created
  /\ IF /\ Exists(result.temp_table)
        /\ Exists(table_name)
        /\ InsertAccepts(columns[table_name], columns[result.temp_table])
       THEN /\ store' = Put(store, table_name,
                            Inserted(store[table_name], store[result.temp_table]))
            /\ pc' = "wait"
            /\ UNCHANGED e
       ELSE /\ e' = FoldException
            /\ pc' = "except"
            /\ UNCHANGED store
  /\ UNCHANGED <<sheet_names, max_workers, store0, now, future_to_sheet,
                 work_queue, threads, num_threads, idle_semaphore, task, early,
                 finished_futures, yielded, future, completed_sheets,
                 temp_tables, total_rows, first_table_created, raised>>
  /\ UNCHANGED extVars

NextSchema ==
  \/ GetSheetNames
  \/ DropExisting
  \/ NewExecutor
  \/ Submit
  \/ AsCompleted
  \/ WorkerGet
  \/ \E i \in Idx : WorkerRun(i)
  \/ \E i \in Idx : WorkerCreateSchema(i)
  \/ \E i \in Idx : WorkerReturn(i)
  \/ Consume
  \/ FoldCreateSchema
  \/ FoldInsertSchema
  \/ ExceptCancel
  \/ ExceptDropTempTables
  \/ ExceptDropTable
  \/ ExceptRaise
  \/ LoopEnd
  \/ Cleanup

\* The merge of a workbook whose sheets may have different headers.
SpecSchema == Init /\ [][NextSchema]_vars

\* -------------------------------------------- staging names of several calls

Calls == 1..MaxCalls

\* What the clock may read at or after t: the next milliseconds, and the
\* same milliseconds one period of the suffix later.
ClockReadings(t) ==
  {ms \in (0..MaxClock) \cup {SuffixMod + d : d \in 0..MaxClock} : ms >= t}

SetCall(c, i, rec) == [calls EXCEPT ![c] = [calls[c] EXCEPT ![i] = rec]]

InitNames ==
  /\ InitMerge
  /\ store = Drop(<<>>, {1})
  /\ Len(sheet_names) > 0
  /\ excel_file = "readable"
  /\ columns = <<>>
  /\ calls = [c \in Calls |-> [i \in Idx |-> [pc |-> "idle", temp_table |-> None]]]
  /\ projections = <<>>
  /\ input_table = table_name
  /\ ukpc = "idle"
  /\ InitOperator

\* lines 242-244 in the worker of sheet i of call c
CallNameStaging(c, i) ==
  /\ calls[c][i].pc = "idle"
  /\ \E ms \in ClockReadings(now) :
       /\ now' = ms
       /\ calls' = SetCall(c, i, [pc |-> "named", temp_table |-> temp_table_name(i, ms)])
  /\ UNCHANGED <<sheet_names, store, store0, future_to_sheet, work_queue,
                 threads, num_threads, idle_semaphore, task, finished_futures>>
  /\ UNCHANGED coordVars
  /\ UNCHANGED <<excel_file, columns, projections, input_table, ukpc, operatorVars,
                 done_order>>

\* lines 256-267 in the worker of sheet i of call c: CREATE TABLE
\* {temp_table} fails when a relation of that name exists in the store.
CallCreateStaging(c, i) ==
  /\ calls[c][i].pc = "named"
  /\ IF Exists(calls[c][i].temp_table)
       THEN /\ calls' = SetCall(c, i, [calls[c][i] EXCEPT !.pc = "collided"])
            /\ UNCHANGED store
       ELSE /\ \E r \in 0..MaxRows :
                 store' = Put(store, calls[c][i].temp_table, SheetRows(i, r))
            /\ calls' = SetCall(c, i, [calls[c][i] EXCEPT !.pc = "created"])
  /\ UNCHANGED <<sheet_names, store0, now, future_to_sheet, work_queue,
                 threads, num_threads, idle_semaphore, task, finished_futures>>
  /\ UNCHANGED coordVars
  /\ UNCHANGED <<excel_file, columns, projections, input_table, ukpc, operatorVars,
                 done_order>>

\* lines 339-343 and 355-360 in call c: DROP TABLE IF EXISTS {temp_table}
\* for a staging relation whose result the merge loop consumed
CallDropStaging(c, i) ==
  /\ calls[c][i].pc = "created"
  /\ store' = Drop(store, {calls[c][i].temp_table})
  /\ calls' = SetCall(c, i, [calls[c][i] EXCEPT !.pc = "dropped"])
  /\ UNCHANGED <<sheet_names, store0, now, future_to_sheet, work_queue,
                 threads, num_threads, idle_semaphore, task, finished_futures>>
  /\ UNCHANGED coordVars
  /\ UNCHANGED <<excel_file, columns, projections, input_table, ukpc, operatorVars,
                 done_order>>

NextNames ==
  \/ \E c \in Calls, i \in Idx : CallNameStaging(c, i)
  \/ \E c \in Calls, i \in Idx : CallCreateStaging(c, i)
  \/ \E c \in Calls, i \in Idx : CallDropStaging(c, i)

\* The workers of several calls (concurrent calls, or a call and its
\* retry) naming and creating their staging relations in one store.
SpecNames == InitNames /\ [][NextNames]_vars

\* ------------------------------------------------------ caller's interrupt

\* A KeyboardInterrupt is raised in the coordinator while the merge loop
\* waits in as_completed (line 307).  It is a BaseException: the handler of
\* line 332 (except Exception) does not catch it.
KeyboardInterrupt ==
  /\ pc = "wait"
  /\ pc' = "interrupted"
  /\ UNCHANGED <<sheet_names, max_workers, store, store0, now, future_to_sheet,
                 work_queue, threads, num_threads, idle_semaphore, task, early,
                 finished_futures, yielded, future, completed_sheets,
                 temp_tables, total_rows, first_table_created, e, raised>>
  /\ UNCHANGED extVars

\* The interrupt leaves the with block of line 298, whose exit is
\* executor.shutdown(wait=True): the queued work items still run, and the
\* interrupt reaches the caller when every thread has ended.
InterruptExit ==
  /\ pc = "interrupted"
  /\ work_queue = <<>>
  /\ threads = {}
  /\ raised' = [type |-> "KeyboardInterrupt", message |-> None]
  /\ pc' = "raised"
  /\ UNCHANGED <<sheet_names, max_workers, store, store0, now, future_to_sheet,
                 work_queue, threads, num_threads, idle_semaphore, task, early,
                 finished_futures, yielded, future, completed_sheets,
                 temp_tables, total_rows, first_table_created, e>>
  /\ UNCHANGED extVars

NextInterrupt ==
  \/ GetSheetNames
  \/ DropExisting
  \/ NewExecutor
  \/ Submit
  \/ AsCompleted
  \/ WorkerGet
  \/ \E i \in Idx : WorkerRun(i)
  \/ \E i \in Idx : WorkerCreate(i)
  \/ \E i \in Idx : WorkerReturn(i)
  \/ Consume
  \/ FoldCreate
  \/ FoldInsert
  \/ ExceptCancel
  \/ ExceptDropTempTables
  \/ ExceptDropTable
  \/ ExceptRaise
  \/ LoopEnd
  \/ Cleanup
  \/ KeyboardInterrupt
  \/ InterruptExit

\* The merge of one call that its caller may interrupt.
SpecInterrupt == Init /\ [][NextInterrupt]_vars

\* ------------------------------------------------- workbook that fails to open

\* The exception of get_sheet_names: FileNotFoundError (line 167) or
\* Exception (line 176)
EnumerationError(file) ==
  [type |-> IF file = "missing" THEN "FileNotFoundError" ELSE "Exception",
   message |-> [kind |-> "WorkbookReadError", names |-> NoSheet]]

\* line 199: get_sheet_names raises and union_sheets_concurrent lets the
\* exception through
GetSheetNamesRaises ==
  /\ pc = "get_sheet_names"
  /\ EnumerationRaises(excel_file)
  /\ raised' = EnumerationError(excel_file)
  /\ pc' = "raised"
  /\ UNCHANGED <<sheet_names, max_workers, store, store0, now, future_to_sheet,
                 work_queue, threads, num_threads, idle_semaphore, task, early,
                 finished_futures, yielded, future, completed_sheets,
                 temp_tables, total_rows, first_table_created, e>>
  /\ UNCHANGED extVars

InitEnumerate ==
  /\ InitMerge
  /\ excel_file \in {"readable", "missing", "unreadable"}
  /\ columns = <<>>
  /\ calls = <<>>
  /\ projections = <<>>
  /\ input_table = table_name
  /\ ukpc = "idle"
  /\ InitOperator

NextEnumerate ==
  \/ GetSheetNames
  \/ GetSheetNamesRaises
  \/ DropExisting
  \/ NewExecutor
  \/ Submit
  \/ AsCompleted
  \/ WorkerGet
  \/ \E i \in Idx : WorkerRun(i)
  \/ \E i \in Idx : WorkerCreate(i)
  \/ \E i \in Idx : WorkerReturn(i)
  \/ Consume
  \/ FoldCreate
  \/ FoldInsert
  \/ ExceptCancel
  \/ ExceptDropTempTables
  \/ ExceptDropTable
  \/ ExceptRaise
  \/ LoopEnd
  \/ Cleanup

\* The merge of a workbook whose path may not lead to a readable file.
SpecEnumerate == InitEnumerate /\ [][NextEnumerate]_vars

\* ------------------------------------------------------------- unique_keys

\* line 532: f"u_{table_name}"
new_table_name(t) == <<"u">> \o t

\* The input relation has a key column A and one more column B.
InputColumns == <<"A", "B">>

KeyValues == {1, 2}

CellValues == {1, 2, NULL}

InputRelations ==
  UNION {[1..n -> KeyValues \X CellValues] : n \in 0..MaxDedupRows}

\* One (expression, alias) pair of the projections argument; alias "" is
\* the alias None or blank of line 537.
Entry(expr, alias) == [expr |-> expr, alias |-> alias]

\* The projections lists of the calls modelled: none at all (the empty
\* list and None, which line 528 does not tell apart), the key alone, the
\* key with count(*), the key with any_value under the column's own name
\* (main's default, lines 729-751) and under another name, and the key with a
\* plain column.
ProjectionLists ==
  {<<>>,
   <<Entry("A", "")>>,
   <<Entry("A", ""), Entry("count(*)", "count")>>,
   <<Entry("A", ""), Entry("any_value(B)", "B")>>,
   <<Entry("A", ""), Entry("any_value(B)", "n1")>>,
   <<Entry("A", ""), Entry("B", "")>>}

\* The expressions that are SQL aggregates: GROUP BY ALL groups by the
\* others.
IsAggregate(expr) == expr \in {"count(*)", "any_value(A)", "any_value(B)"}

\* The column an expression reads.
Argument(expr) ==
  CASE expr = "any_value(A)" -> "A"
    [] expr = "any_value(B)" -> "B"
    [] OTHER -> expr

References(expr) == IF expr = "count(*)" THEN {} ELSE {Argument(expr)}

\* lines 536-542: expr AS alias, or expr alone
OutputColumn(entry) == IF entry.alias # "" THEN entry.alias ELSE entry.expr

ColumnIndex(cols, c) == CHOOSE j \in 1..Len(cols) : cols[j] = c

Cell(row, cols, c) == row[ColumnIndex(cols, c)]

\* The statement of lines 552-558 binds: the select list is not empty and
\* every column it reads is a column of the input relation.
Binds(cols, proj) ==
  /\ Len(proj) > 0
  /\ \A j \in 1..Len(proj) : References(proj[j].expr) \subseteq Range(cols)

\* GROUP BY ALL: the entries that are not aggregates are the grouping columns
GroupingEntries(proj) == {j \in 1..Len(proj) : ~ IsAggregate(proj[j].expr)}

GroupingValues(row, cols, proj) ==
  [j \in GroupingEntries(proj) |-> Cell(row, cols, proj[j].expr)]

\* The groups of GROUP BY ALL, each the set of the positions of its rows; a
\* select list of aggregates only has the one group of all rows.
Groups(rows, cols, proj) ==
  IF GroupingEntries(proj) = {} THEN {1..Len(rows)}
  ELSE {{i \in 1..Len(rows) :
           GroupingValues(rows[i], cols, proj) = GroupingValues(rows[k], cols, proj)}
        : k \in 1..Len(rows)}

count_star_One(g) == 1

\* count(*) over group g
count_star(g) == Cardinality(g)

any_value_Missing(vals) == {NULL}

\* any_value over the values vals of a group: some non-NULL value, which
\* one is not determined; NULL when there is none
any_value(vals) == IF vals \ {NULL} = {} THEN {NULL} ELSE vals \ {NULL}

\* The values entry may take in the output row of group g.
EntryValues(g, rows, cols, entry) ==
  IF entry.expr = "count(*)" THEN {count_star(g)}
  ELSE IF IsAggregate(entry.expr)
       THEN any_value({Cell(rows[i], cols, Argument(entry.expr)) : i \in g})
       ELSE {Cell(rows[i], cols, entry.expr) : i \in g}

\* The output rows group g may give, entries j.. of the select list.
RECURSIVE GroupRows(_, _, _, _, _)
GroupRows(g, rows, cols, proj, j) ==
  IF j > Len(proj) THEN {<<>>}
  ELSE {<<v>> \o rest : v \in EntryValues(g, rows, cols, proj[j]),
                        rest \in GroupRows(g, rows, cols, proj, j + 1)}

\* One output row for each group of G, in every order.
RECURSIVE Arrangements(_, _, _, _)
Arrangements(G, rows, cols, proj) ==
  IF G = {} THEN {<<>>}
  ELSE UNION {{<<r>> \o rest : r \in GroupRows(g, rows, cols, proj, 1),
                              rest \in Arrangements(G \ {g}, rows, cols, proj)}
              : g \in G}

OrderBy_Unordered(outs) == outs

\* ORDER BY 1 ASC: rows with equal first columns come in any order
OrderBy(outs) ==
  {out \in outs : \A i \in 1..(Len(out) - 1) : out[i][1] <= out[i + 1][1]}

\* SELECT {projection_str} FROM {table_name} GROUP BY ALL ORDER BY 1 ASC
GroupByAll(rows, cols, proj) ==
  OrderBy(Arrangements(Groups(rows, cols, proj), rows, cols, proj))

\* The variables of the merge, which unique_keys leaves alone.
mergeVars == <<pc, sheet_names, max_workers, store0, now, future_to_sheet,
               work_queue, threads, num_threads, idle_semaphore, task, early,
               finished_futures, yielded, future, completed_sheets,
               temp_tables, total_rows, first_table_created, e, excel_file,
               calls, operatorVars, done_order>>

\* The store unique_keys may be called on: the input relation with any rows,
\* or no input relation; with or without a u_ relation of an earlier call.
EmptyStore == Drop(<<>>, {1})

StaleUnique == <<<<StaleRow>>>>

InitialStores ==
  LET base == {EmptyStore,
               Put(EmptyStore, new_table_name(table_name), StaleUnique)}
  IN  base \cup {Put(b, table_name, rows) : b \in base, rows \in InputRelations}

InitUnique ==
  /\ pc = "returned"
  /\ sheet_names = <<>>
  /\ max_workers = 1
  /\ store \in InitialStores
  /\ store0 = store
  /\ now = 0
  /\ future_to_sheet = <<>>
  /\ work_queue = <<>>
  /\ threads = {}
  /\ num_threads = 0
  /\ idle_semaphore = 0
  /\ task = <<>>
  /\ early = {}
  /\ finished_futures = <<>>
  /\ yielded = {}
  /\ future = NoSheet
  /\ completed_sheets = <<>>
  /\ temp_tables = <<>>
  /\ total_rows = 0
  /\ first_table_created = FALSE
  /\ e = None
  /\ raised = None
  /\ excel_file = "readable"
  /\ columns = [nm \in DOMAIN store |->
                  IF nm = table_name THEN InputColumns ELSE <<"A">>]
  /\ calls = <<>>
  /\ projections \in ProjectionLists
  /\ input_table = table_name
  /\ ukpc = "check"
  /\ InitOperator
  /\ done_order = <<>>

Rejects_Never(p) == FALSE

\* line 528: if not projections
Rejects(p) == Len(p) = 0

UniqueKeysError(kind) ==
  [type |-> "Exception", message |-> [kind |-> kind, names |-> NoSheet]]

\* lines 528-529
UniqueKeysReject ==
  /\ ukpc = "check"
  /\ Rejects(projections)
  /\ raised' = UniqueKeysError("EmptyProjection")
  /\ ukpc' = "raised"
  /\ UNCHANGED <<store, columns, projections, input_table>>
  /\ UNCHANGED mergeVars

\* lines 531-548: DROP TABLE IF EXISTS {new_table_name}
UniqueKeysDrop ==
  /\ ukpc = "check"
  /\ ~ Rejects(projections)
  /\ store' = Drop(store, {new_table_name(input_table)})
  /\ columns' = Drop(columns, {new_table_name(input_table)})
  /\ ukpc' = "group_by"
  /\ UNCHANGED <<raised, projections, input_table>>
  /\ UNCHANGED mergeVars

\* The CREATE TABLE ... AS of lines 552-558 succeeds.
CreateAccepts ==
  /\ Exists(input_table)
  /\ Binds(columns[input_table], projections)

\* lines 550-564: CREATE TABLE {new_table_name} AS SELECT ... GROUP BY ALL
\* ORDER BY 1 ASC
UniqueKeysGroupBy ==
  /\ ukpc = "group_by"
  /\ CreateAccepts
  /\ \E out \in GroupByAll(store[input_table], columns[input_table], projections) :
        store' = Put(store, new_table_name(input_table), out)
  /\ columns' = Put(columns, new_table_name(input_table),
                    [j \in 1..Len(projections) |-> OutputColumn(projections[j])])
  /\ ukpc' = "count"
  /\ UNCHANGED <<raised, projections, input_table>>
  /\ UNCHANGED mergeVars

\* line 562 raises: the input relation does not exist (catalog error) or a
\* column of the select list is not one of its columns (binder error)
UniqueKeysGroupByRaises ==
  /\ ukpc = "group_by"
  /\ ~ CreateAccepts
  /\ raised' = UniqueKeysError(IF Exists(input_table) THEN "BinderError"
                                                      ELSE "CatalogError")
  /\ ukpc' = "raised"
  /\ UNCHANGED <<store, columns, projections, input_table>>
  /\ UNCHANGED mergeVars

\* lines 566-586: the counts and DESCRIBE read the store; return new_table_name
UniqueKeysReturn ==
  /\ ukpc = "count"
  /\ ukpc' = "returned"
  /\ UNCHANGED <<store, columns, raised, projections, input_table>>
  /\ UNCHANGED mergeVars

\* unique_keys is called again, with the same projections, on the relation
\* it returned.
UniqueKeysAgain ==
  /\ ukpc = "returned"
  /\ Len(input_table) < MaxApplications
  /\ input_table' = new_table_name(input_table)
  /\ ukpc' = "check"
  /\ UNCHANGED <<store, columns, raised, projections>>
  /\ UNCHANGED mergeVars

NextUnique ==
  \/ UniqueKeysReject
  \/ UniqueKeysDrop
  \/ UniqueKeysGroupBy
  \/ UniqueKeysGroupByRaises
  \/ UniqueKeysReturn
  \/ UniqueKeysAgain

\* Calls of unique_keys on a store that holds a merged relation.
SpecUnique == InitUnique /\ [][NextUnique]_vars

\* --------------------------------------------------- select_output_excel

\* os.path.join(parent_dir, f"output_{entry_name}.xlsx")
output_path == <<"output_entry">>

\* os.path.join(parent_dir, f"output_{entry_name}_{idx}.xlsx")
output_path_idx(k) == <<"output_entry", k>>

\* The output files of the entry that may exist before the call.
OutputPaths == {output_path} \cup {output_path_idx(k) : k \in 2..MaxFiles}

path_exists_Never(path) == FALSE

\* os.path.exists(output_excel)
path_exists(path) == path \in files

\* The state of everything but select_output_excel, which it leaves alone.
callVars == <<pc, sheet_names, max_workers, store, store0, now, future_to_sheet,
              work_queue, threads, num_threads, idle_semaphore, task, early,
              finished_futures, yielded, future, completed_sheets, temp_tables,
              total_rows, first_table_created, e, raised, excel_file, columns,
              calls, projections, input_table, ukpc, done_order,
              dispatchVars, sequentialVars, batchVars>>

\* lines 14-15 have run
InitSelect ==
  /\ InitMerge
  /\ sheet_names = <<>>
  /\ max_workers = 1
  /\ store = Drop(<<>>, {1})
  /\ excel_file = "readable"
  /\ columns = <<>>
  /\ calls = <<>>
  /\ projections = <<>>
  /\ input_table = table_name
  /\ ukpc = "idle"
  /\ files \in SUBSET OutputPaths
  /\ output_excel = output_path
  /\ idx = 2
  /\ sopc = "while"
  /\ entry_name = <<>>
  /\ entry_registry = <<>>
  /\ handler = <<>>
  /\ handler_raises = FALSE
  /\ handler_calls = <<>>
  /\ hepc = "idle"
  /\ uspc = "idle"
  /\ us_i = 0
  /\ entries = <<>>
  /\ entry_i = 0
  /\ processed_count = 0
  /\ failed_count = 0
  /\ attempted = <<>>
  /\ mainpc = "idle"

\* lines 16-20: the candidate exists, take the next suffix
SelectNext ==
  /\ sopc = "while"
  /\ path_exists(output_excel)
  /\ output_excel' = output_path_idx(idx)
  /\ idx' = idx + 1
  /\ UNCHANGED <<files, sopc>>
  /\ UNCHANGED callVars

\* lines 16 and 21: the candidate does not exist, return it
SelectReturn ==
  /\ sopc = "while"
  /\ ~ path_exists(output_excel)
  /\ sopc' = "returned"
  /\ UNCHANGED <<files, output_excel, idx>>
  /\ UNCHANGED callVars

NextSelect ==
  \/ SelectNext
  \/ SelectReturn

\* One call of select_output_excel.
SpecSelect == InitSelect /\ [][NextSelect]_vars

\* ------------------------------------------------------------ handle_entry

\* Names are strings over two characters.
Strings(n) == UNION {[1..k -> {"a", "b"}] : k \in 0..n}

\* The registries register_week_entry / register_month_entry can build: a
\* dict keeps its keys distinct and in the order of their first registration.
Registries ==
  {r \in UNION {[1..n -> Strings(MaxKeyLen)] : n \in 0..MaxHandlers} :
     \A a, b \in 1..Len(r) : r[a] = r[b] => a = b}

startswith_Never(name, key) == FALSE

\* entry_name.startswith(handler_key)
startswith(name, key) ==
  /\ Len(key) <= Len(name)
  /\ SubSeq(name, 1, Len(key)) = key

\* lines 176-180: for handler_key in entry_registry ... break
RECURSIVE PrefixMatch(_, _)
PrefixMatch(name, registry) ==
  IF registry = <<>> THEN <<>>
  ELSE IF startswith(name, Head(registry)) THEN <<Head(registry)>>
  ELSE PrefixMatch(name, Tail(registry))

\* The state of everything but handle_entry.
noDispatchVars == <<pc, sheet_names, max_workers, store, store0, now,
                    future_to_sheet, work_queue, threads, num_threads,
                    idle_semaphore, task, early, finished_futures, yielded,
                    future, completed_sheets, temp_tables, total_rows,
                    first_table_created, e, raised, excel_file, columns, calls,
                    projections, input_table, ukpc, done_order, selectVars,
                    sequentialVars, batchVars>>

InitDispatch ==
  /\ InitMerge
  /\ sheet_names = <<>>
  /\ max_workers = 1
  /\ store = Drop(<<>>, {1})
  /\ excel_file = "readable"
  /\ columns = <<>>
  /\ calls = <<>>
  /\ projections = <<>>
  /\ input_table = table_name
  /\ ukpc = "idle"
  /\ files = {}
  /\ output_excel = <<>>
  /\ idx = 0
  /\ sopc = "idle"
  /\ entry_name \in Strings(MaxKeyLen + 1)
  /\ entry_registry \in Registries
  /\ handler = <<>>
  /\ handler_raises \in BOOLEAN
  /\ handler_calls = <<>>
  /\ hepc = "match"
  /\ uspc = "idle"
  /\ us_i = 0
  /\ entries = <<>>
  /\ entry_i = 0
  /\ processed_count = 0
  /\ failed_count = 0
  /\ attempted = <<>>
  /\ mainpc = "idle"

\* lines 170-180: exact match first, else the first key that is a prefix
HandleMatch ==
  /\ hepc = "match"
  /\ handler' = IF entry_name \in Range(entry_registry)
                  THEN <<entry_name>>
                  ELSE PrefixMatch(entry_name, entry_registry)
  /\ hepc' = "matched"
  /\ UNCHANGED <<entry_name, entry_registry, handler_raises, handler_calls>>
  /\ UNCHANGED noDispatchVars

\* lines 182-184: if not handler: warn and return
HandleUnregistered ==
  /\ hepc = "matched"
  /\ handler = <<>>
  /\ hepc' = "returned"
  /\ UNCHANGED <<entry_name, entry_registry, handler, handler_raises, handler_calls>>
  /\ UNCHANGED noDispatchVars

\* lines 188-193: the handler is called; its exception is logged and re-raised
HandleCall ==
  /\ hepc = "matched"
  /\ handler # <<>>
  /\ handler_calls' = Append(handler_calls, handler[1])
  /\ hepc' = IF handler_raises THEN "raised" ELSE "returned"
  /\ UNCHANGED <<entry_name, entry_registry, handler, handler_raises>>
  /\ UNCHANGED noDispatchVars

NextDispatch ==
  \/ HandleMatch
  \/ HandleUnregistered
  \/ HandleCall

\* One call of handle_entry.
SpecDispatch == InitDispatch /\ [][NextDispatch]_vars

\* ------------------------------------------------------------ union_sheets

\* The destination union_sheets is called with, to be compared with the
\* destination of the concurrent merge of the same workbook.
seq_table_name == <<"seq_table_name">>

\* The number of rows sheet i has after projection, as its worker counted
\* them in the concurrent merge.
RowCount(i) ==
  LET k == CHOOSE k \in 1..Len(completed_sheets) :
             completed_sheets[k].sheet_index = i
  IN  completed_sheets[k].row_count

\* SELECT {projection_str} FROM read_xlsx(..., sheet=sheet i)
SheetQuery(i) == SheetRows(i, RowCount(i))

UnionAll_FirstOnly(n) == SheetQuery(0)

\* q_0 UNION ALL q_1 ... UNION ALL q_(n-1)
RECURSIVE UnionAll(_)
UnionAll(n) ==
  IF n = 0 THEN <<>> ELSE UnionAll(n - 1) \o SheetQuery(n - 1)

\* The state union_sheets leaves alone.
noSequentialVars == <<pc, sheet_names, max_workers, store0, now,
                      future_to_sheet, work_queue, threads, num_threads,
                      idle_semaphore, task, early, finished_futures, yielded,
                      future, completed_sheets, temp_tables, total_rows,
                      first_table_created, e, raised, excel_file, columns,
                      calls, projections, input_table, ukpc, done_order,
                      selectVars, dispatchVars, batchVars>>

\* A workbook of up to MaxSeqSheets sheets is merged by
\* union_sheets_concurrent with max_workers >= 1 into an empty store.
InitAgree ==
  /\ pc = "get_sheet_names"
  /\ \E n \in 0..MaxSeqSheets : sheet_names = [k \in 1..n |-> k - 1]
  /\ max_workers \in 1..MaxWorkers
  /\ store = Drop(<<>>, {1})
  /\ store0 = store
  /\ now = 0
  /\ future_to_sheet = <<>>
  /\ work_queue = <<>>
  /\ threads = {}
  /\ num_threads = 0
  /\ idle_semaphore = 0
  /\ task = [i \in Idx |-> [pc |-> "idle", temp_table |-> None]]
  /\ early = {}
  /\ finished_futures = <<>>
  /\ yielded = {}
  /\ future = NoSheet
  /\ completed_sheets = <<>>
  /\ temp_tables = <<>>
  /\ total_rows = 0
  /\ first_table_created = FALSE
  /\ e = None
  /\ raised = None
  /\ done_order = <<>>
  /\ excel_file = "readable"
  /\ columns = <<>>
  /\ calls = <<>>
  /\ projections = <<>>
  /\ input_table = table_name
  /\ ukpc = "idle"
  /\ InitOperator

\* lines 398-427: get_sheet_names; an empty workbook is skipped; DROP TABLE
\* IF EXISTS; the mode is chosen by the number of sheets.  union_sheets is
\* called once the concurrent merge of the same workbook has returned.
SeqStart ==
  /\ pc = "returned"
  /\ uspc = "idle"
  /\ IF SkipsEmpty(sheet_names)
       THEN /\ uspc' = "returned"
            /\ UNCHANGED store
       ELSE /\ store' = Drop(store, {seq_table_name})
            /\ uspc' = IF Len(sheet_names) > UnionAllLimit
                         THEN "batch_insert" ELSE "union_all"
  /\ UNCHANGED us_i
  /\ UNCHANGED noSequentialVars

\* lines 432-458: sheet i creates the destination when i = 0 and is
\* inserted into it otherwise
SeqBatchInsert ==
  /\ uspc = "batch_insert"
  /\ us_i < Len(sheet_names)
  /\ store' = IF us_i = 0
                THEN Put(store, seq_table_name, SheetQuery(us_i))
                ELSE Put(store, seq_table_name,
                         Inserted(store[seq_table_name], SheetQuery(us_i)))
  /\ us_i' = us_i + 1
  /\ UNCHANGED uspc
  /\ UNCHANGED noSequentialVars

\* lines 432 and 492-501: the loop over the sheets has ended
SeqBatchEnd ==
  /\ uspc = "batch_insert"
  /\ us_i = Len(sheet_names)
  /\ uspc' = "returned"
  /\ UNCHANGED <<store, us_i>>
  /\ UNCHANGED noSequentialVars

\* lines 470-501: CREATE TABLE {table_name} AS (q_0 UNION ALL q_1 ...)
SeqUnionAll ==
  /\ uspc = "union_all"
  /\ store' = Put(store, seq_table_name, UnionAll(Len(sheet_names)))
  /\ uspc' = "returned"
  /\ UNCHANGED us_i
  /\ UNCHANGED noSequentialVars

\* The concurrent merge where every sheet is ingested and every statement of
\* the merge loop succeeds, followed by the sequential merge.
NextAgree ==
  \/ GetSheetNames
  \/ DropExisting
  \/ NewExecutor
  \/ Submit
  \/ AsCompleted
  \/ WorkerGet
  \/ \E i \in Idx : WorkerRun(i)
  \/ \E i \in Idx : WorkerCreate(i) /\ task'[i].pc = "count"
  \/ \E i \in Idx : WorkerReturn(i)
  \/ Consume
  \/ FoldCreate /\ pc' = "wait"
  \/ FoldInsert /\ pc' = "wait"
  \/ LoopEnd
  \/ Cleanup
  \/ SeqStart
  \/ SeqBatchInsert
  \/ SeqBatchEnd
  \/ SeqUnionAll

SpecAgree == InitAgree /\ [][NextAgree]_vars

\* ------------------------------------------- main (excel_operator.py)

\* What lines 377-380 (log_progress, list_excels, handle_entry) do for one
\* entry directory: they return (handle_entry also returns when no handler
\* is registered, line 184), they raise an Exception (list_excels fails, or
\* the handler's exception re-raised at line 193), or a KeyboardInterrupt
\* is raised while they run.
Handling == {"return", "Exception", "KeyboardInterrupt"}

Catches_Nothing(exc) == FALSE

\* line 383: except Exception as e.  KeyboardInterrupt derives from
\* BaseException, not from Exception.
Catches(exc) == exc = "Exception"

noBatchVars == <<pc, sheet_names, max_workers, store, store0, now,
                 future_to_sheet, work_queue, threads, num_threads,
                 idle_semaphore, task, early, finished_futures, yielded,
                 future, completed_sheets, temp_tables, total_rows,
                 first_table_created, e, raised, excel_file, columns, calls,
                 projections, input_table, ukpc, done_order, selectVars,
                 dispatchVars, sequentialVars>>

\* main has listed the entry directories (line 352) and reached the batch
\* loop.
InitBatch ==
  /\ InitMerge
  /\ sheet_names = <<>>
  /\ max_workers = 1
  /\ store = Drop(<<>>, {1})
  /\ excel_file = "readable"
  /\ columns = <<>>
  /\ calls = <<>>
  /\ projections = <<>>
  /\ input_table = table_name
  /\ ukpc = "idle"
  /\ files = {}
  /\ output_excel = <<>>
  /\ idx = 0
  /\ sopc = "idle"
  /\ entry_name = <<>>
  /\ entry_registry = <<>>
  /\ handler = <<>>
  /\ handler_raises = FALSE
  /\ handler_calls = <<>>
  /\ hepc = "idle"
  /\ uspc = "idle"
  /\ us_i = 0
  /\ \E n \in 0..MaxEntries : entries \in [1..n -> Handling]
  /\ entry_i = 0
  /\ processed_count = 0
  /\ failed_count = 0
  /\ attempted = <<>>
  /\ mainpc = "batch"

\* lines 369-373: processed_count = 0; failed_count = 0
BatchStart ==
  /\ mainpc = "batch"
  /\ processed_count' = 0
  /\ failed_count' = 0
  /\ mainpc' = "for"
  /\ UNCHANGED <<entries, entry_i, attempted>>
  /\ UNCHANGED noBatchVars

\* lines 375-382: the next entry is handled and counted as processed
BatchProcessed ==
  /\ mainpc = "for"
  /\ entry_i < Len(entries)
  /\ entries[entry_i + 1] = "return"
  /\ entry_i' = entry_i + 1
  /\ attempted' = Append(attempted, entry_i + 1)
  /\ processed_count' = processed_count + 1
  /\ UNCHANGED <<entries, failed_count, mainpc>>
  /\ UNCHANGED noBatchVars

\* lines 375-380, 383-386: handling the next entry raises, the loop's
\* handler catches the exception, counts the entry as failed and continues
BatchFailed ==
  /\ mainpc = "for"
  /\ entry_i < Len(entries)
  /\ entries[entry_i + 1] # "return"
  /\ Catches(entries[entry_i + 1])
  /\ entry_i' = entry_i + 1
  /\ attempted' = Append(attempted, entry_i + 1)
  /\ failed_count' = failed_count + 1
  /\ UNCHANGED <<entries, processed_count, mainpc>>
  /\ UNCHANGED noBatchVars

\* lines 375-380, 397-400: handling the next entry raises what the loop's
\* handler does not catch; the exception leaves the loop and is logged by
\* the handlers of main's outer try
BatchRaises ==
  /\ mainpc = "for"
  /\ entry_i < Len(entries)
  /\ entries[entry_i + 1] # "return"
  /\ ~ Catches(entries[entry_i + 1])
  /\ entry_i' = entry_i + 1
  /\ attempted' = Append(attempted, entry_i + 1)
  /\ mainpc' = "interrupted"
  /\ UNCHANGED <<entries, processed_count, failed_count>>
  /\ UNCHANGED noBatchVars

\* lines 388-395: the loop is exhausted and the counts are reported
BatchSummary ==
  /\ mainpc = "for"
  /\ entry_i = Len(entries)
  /\ mainpc' = "summary"
  /\ UNCHANGED <<entries, entry_i, processed_count, failed_count, attempted>>
  /\ UNCHANGED noBatchVars

NextBatch ==
  \/ BatchStart
  \/ BatchProcessed
  \/ BatchFailed
  \/ BatchRaises
  \/ BatchSummary

\* The batch loop of main over the listed entries.
SpecBatch == InitBatch /\ [][NextBatch]_vars

\* ------------------------------------------------------------ properties

Terminal == pc \in {"returned", "raised"}

\* The staging relations (temp_sheet_*) that exist in the store.
StagingRelations == {nm \in DOMAIN store : IsStaging(nm)}

\* Some worker's process_sheet_task raised.
AnyWorkerFailed == \E i \in Submitted : Fut(i).exception # None

\* Every sheet's worker ran and returned a result.
AllWorkersSucceeded ==
  /\ Submitted = Idx
  /\ \A i \in Idx : Fut(i).state = "FINISHED" /\ Fut(i).exception = None

\* The call failed in the merge loop: it raised the error of line 352.
MergeLoopFailed == pc = "raised" /\ raised.type = "Exception"

\* The workers that have started process_sheet_task and not finished.
Active == {i \in Submitted : Fut(i).state = "RUNNING"}

Min(a, b) == IF a < b THEN a ELSE b

RECURSIVE SumRowCounts(_)
SumRowCounts(results) ==
  IF results = <<>> THEN 0
  ELSE results[1].row_count + SumRowCounts(Tail(results))

\* The number of rows of relation rows that come from sheet i.
RowsFrom(rows, i) == Cardinality({k \in DOMAIN rows : rows[k] = i})

\* C1 (as claimed): once the call has returned its error after a worker
\* failed, no staging relation created by a worker of the call exists.
C1_Atomicity == (pc = "raised" /\ AnyWorkerFailed) => StagingRelations = {}

C3_StoreUnchanged == MergeLoopFailed => store = store0

\* C4: after a successful call on a workbook with sheets, the destination
\* holds as many rows as the staging relations held together, which is the
\* running total total_rows, and holds each sheet's rows.
C4_Completeness ==
  (pc = "returned" /\ Len(sheet_names) > 0) =>
     /\ Exists(table_name)
     /\ Len(store[table_name]) = SumRowCounts(completed_sheets)
     /\ Len(store[table_name]) = total_rows
     /\ \A i \in Idx : RowsFrom(store[table_name], i) = Fut(i).result.row_count

\* C4 witness: two sheets with a row each were merged, the second sheet
\* completing first.
C4_Witness ==
  /\ pc = "returned"
  /\ Len(completed_sheets) = 2
  /\ completed_sheets[1].sheet_index = 1
  /\ total_rows = 2
  /\ Len(store[table_name]) = 2

C7_ConcurrencyBound ==
  IF max_workers >= 1
    THEN Cardinality(Active) <= Min(max_workers, Len(sheet_names))
    ELSE Active = {}

\* C7 witness: more sheets than workers, every worker busy and a sheet
\* waiting in the queue.
C7_Witness ==
  /\ max_workers >= 1
  /\ max_workers < Len(sheet_names)
  /\ Cardinality(Active) = max_workers
  /\ work_queue # <<>>

\* C8 (as claimed): a non-positive max_workers does not make the call fail.
C8_NonPositiveWorkers ==
  (pc = "raised" /\ max_workers <= 0) => raised.type # "ValueError"

\* C9 (as claimed): with zero sheets the call returns and a destination
\* with zero rows exists.
C9_ZeroSheetsDestination ==
  (pc = "returned" /\ Len(sheet_names) = 0) =>
     (Exists(table_name) /\ store[table_name] = <<>>)

\* C9 (amended): with zero sheets the call returns without error and
\* without touching the store: no relation is created, dropped or changed.
C9_ZeroSheetsSkipped ==
  Len(sheet_names) = 0 =>
     /\ pc \in {"get_sheet_names", "returned"}
     /\ raised = None
     /\ store = store0

\* C9 witness: the call returned on an empty workbook, the store holding
\* an earlier relation named table_name.
C9_Witness ==
  /\ pc = "returned"
  /\ Len(sheet_names) = 0
  /\ Exists(table_name)
  /\ store[table_name] = <<StaleRow>>

\* C10 (as claimed): the error raised after a worker failure wraps the
\* failure the merge loop observed and identifies the sheet whose worker
\* failed.
C10_FailureReport ==
  (MergeLoopFailed /\ e # FoldException) =>
     /\ raised.message = Fut(future).exception
     /\ raised.message.names = Fut(future).sheet_name
\* The columns the staging relation of sheet i was created with.
StagingColumns(i) == columns[task[i].temp_table]

\* C11 (as claimed): the call does not succeed when two sheets produced
\* staging relations with different column sets.
C11_SchemaConsistency ==
  pc = "returned" =>
     \A i, j \in Idx : StagingColumns(i) = StagingColumns(j)
\* The workers, of any call, that have generated their staging name.
Named == {w \in Calls \X Idx : calls[w[1]][w[2]].pc # "idle"}

\* C12 (as claimed): the staging names generated by the workers of one
\* call, of concurrent calls and of a retry are pairwise distinct, and no
\* worker's CREATE TABLE collides with a staging relation of another.
C12_StagingNamesUnique ==
  /\ \A w1, w2 \in Named :
       w1 # w2 => calls[w1[1]][w1[2]].temp_table # calls[w2[1]][w2[2]].temp_table
  /\ \A w \in Named : calls[w[1]][w[2]].pc # "collided"
\* The destination holds the rows of every sheet of the workbook: every
\* sheet's result has been folded.
DestinationComplete ==
  /\ Exists(table_name)
  /\ Len(completed_sheets) = Len(sheet_names)
  /\ pc # "fold"
  /\ \A i \in Idx : RowsFrom(store[table_name], i) = Fut(i).result.row_count

C14_UnconditionalCleanup ==
  (pc = "raised" /\ raised.type = "KeyboardInterrupt") =>
     /\ ~ Exists(table_name)
     /\ \A k \in 1..Len(temp_tables) : ~ Exists(temp_tables[k])
\* C15: when the workbook path does not exist or cannot be opened, the call
\* ends with the error of get_sheet_names before any worker is submitted or
\* started, and the store is as it was before the call.
C15_EnumerationFailure ==
  excel_file # "readable" =>
     /\ pc \in {"get_sheet_names", "raised"}
     /\ pc = "raised" => raised = EnumerationError(excel_file)
     /\ store = store0
     /\ future_to_sheet = <<>>
     /\ \A i \in Idx : task[i].pc = "idle"

\* C15 witness: the call has raised on a missing workbook, the store still
\* holding the relation named table_name of an earlier call.
C15_Witness ==
  /\ pc = "raised"
  /\ excel_file = "missing"
  /\ raised.type = "FileNotFoundError"
  /\ Exists(table_name)
  /\ store[table_name] = <<StaleRow>>
\* The current call of unique_keys has executed its CREATE TABLE.
Applied == ukpc \in {"count", "returned"}

\* The rows of the relation the current call of unique_keys reads.
Input == store[input_table]

\* The rows of the relation the current call of unique_keys produced.
Output == store[new_table_name(input_table)]

\* The value of the key expression (the first projection entry) in a row of
\* the input, and the distinct keys of the input.
KeyOf(row) == Cell(row, columns[input_table], projections[1].expr)

InputKeys == {KeyOf(Input[i]) : i \in 1..Len(Input)}

\* The output has exactly one row for each distinct key of the input and no
\* other row.
OneRowPerKey ==
  /\ \A k \in InputKeys :
        Cardinality({i \in 1..Len(Output) : Output[i][1] = k}) = 1
  /\ \A i \in 1..Len(Output) : Output[i][1] \in InputKeys

\* C16: for every projection list whose first entry is the key, the relation
\* unique_keys produced has exactly one row per distinct key of the input and
\* no other row.
C16_OneRowPerKey == Applied => OneRowPerKey

RECURSIVE SumColumn(_, _)
SumColumn(rows, j) ==
  IF rows = <<>> THEN 0 ELSE rows[1][j] + SumColumn(Tail(rows), j)

\* C17: under the projection [key, count(*)] the output has for each distinct
\* key exactly one row, whose count is the number of input rows with that
\* key; the counts sum to the number of input rows.
C17_Counting ==
  (Applied /\ projections = <<Entry("A", ""), Entry("count(*)", "count")>>) =>
     /\ \A k \in InputKeys :
           \E i \in 1..Len(Output) :
              /\ Output[i] = <<k, Cardinality({n \in 1..Len(Input) : KeyOf(Input[n]) = k})>>
              /\ \A m \in 1..Len(Output) : Output[m][1] = k => m = i
     /\ Len(Output) = Cardinality(InputKeys)
     /\ SumColumn(Output, 2) = Len(Input)

\* C17 witness: the merged rows A=1, A=1, A=2 gave (1, 2) and (2, 1).
C17_Witness ==
  /\ ukpc = "returned"
  /\ input_table = table_name
  /\ projections = <<Entry("A", ""), Entry("count(*)", "count")>>
  /\ Len(Input) = 3
  /\ Input[1][1] = 1 /\ Input[2][1] = 1 /\ Input[3][1] = 2
  /\ Output = <<<<1, 2>>, <<2, 1>>>>

\* Sequences s and t hold the same rows the same number of times.
SameRows(s, t) ==
  \A r \in Range(s) \cup Range(t) :
     Cardinality({i \in 1..Len(s) : s[i] = r}) =
     Cardinality({i \in 1..Len(t) : t[i] = r})

\* The relation the first call of unique_keys read has no duplicate keys.
NoDuplicateKeys ==
  /\ Exists(table_name)
  /\ \A i, k \in 1..Len(store[table_name]) :
        store[table_name][i][1] = store[table_name][k][1] => i = k

\* Every entry after the key is an any_value combinator.
TailAnyValue ==
  \A j \in 2..Len(projections) :
     IsAggregate(projections[j].expr) /\ projections[j].expr # "count(*)"

\* The projection lists the key and, for every other column of the first
\* input, in the input's order, any_value of the column under the column's
\* own name.
FullProjection ==
  /\ Len(projections) = Len(InputColumns)
  /\ projections[1].expr = InputColumns[1]
  /\ OutputColumn(projections[1]) = InputColumns[1]
  /\ \A j \in 2..Len(projections) :
        /\ IsAggregate(projections[j].expr) /\ projections[j].expr # "count(*)"
        /\ Argument(projections[j].expr) = InputColumns[j]
        /\ OutputColumn(projections[j]) = InputColumns[j]

\* C18 (as claimed): on a relation without duplicate keys, under every
\* projection whose non-key entries are any_value combinators, the call of
\* unique_keys ends by returning a relation with the same rows as its input,
\* on the first and on the second application.
C18_Idempotent ==
  (NoDuplicateKeys /\ Len(projections) > 0 /\ TailAnyValue) =>
     /\ ukpc # "raised"
     /\ Applied => SameRows(Output, store[table_name])

\* C18 (amended): on a relation without duplicate keys, under a projection
\* that lists the key and any_value of every other column under the column's
\* own name, unique_keys never raises, leaves its input as it was and returns
\* a relation with the same rows and columns as its input; applied to its own
\* result it returns that result again, row for row.
C18_IdempotentFullProjection ==
  (NoDuplicateKeys /\ FullProjection) =>
     /\ ukpc # "raised"
     /\ store[table_name] = store0[table_name]
     /\ Applied =>
          /\ SameRows(Output, store[table_name])
          /\ columns[new_table_name(input_table)] = InputColumns
          /\ input_table # table_name => Output = Input

\* C18 witness: the second application has returned, on an input of two rows
\* with distinct keys that were not in key order.
C18_Witness ==
  /\ ukpc = "returned"
  /\ input_table = new_table_name(table_name)
  /\ FullProjection
  /\ NoDuplicateKeys
  /\ Len(store[table_name]) = 2
  /\ store[table_name][1][1] > store[table_name][2][1]
  /\ Output = Input

\* C19: a call of unique_keys with no projections raises without having
\* executed a statement: the store, the input relation and an existing u_
\* relation included, is as it was before the call.
C19_EmptyProjectionRejected ==
  Len(projections) = 0 =>
     /\ ukpc \in {"check", "raised"}
     /\ ukpc = "raised" => raised = UniqueKeysError("EmptyProjection")
     /\ store = store0
     /\ DOMAIN columns = DOMAIN store0

\* C19 witness: the call was rejected on a store that holds the input
\* relation and a u_ relation of an earlier call.
C19_Witness ==
  /\ ukpc = "raised"
  /\ Len(projections) = 0
  /\ Exists(table_name)
  /\ Len(store[table_name]) > 0
  /\ Exists(new_table_name(table_name))
  /\ store[new_table_name(table_name)] = StaleUnique

\* C20: the rows of the relation unique_keys produced are in ascending order
\* of their first column, whatever the order of the input rows.
C20_SortedOutput ==
  Applied => \A i \in 1..(Len(Output) - 1) : Output[i][1] <= Output[i + 1][1]

\* C20 witness: an input whose keys come in descending order gave an output
\* of two rows in ascending order.
C20_Witness ==
  /\ ukpc = "returned"
  /\ input_table = table_name
  /\ Len(Input) >= 2
  /\ Input[1][1] > Input[2][1]
  /\ Len(Output) = 2
  /\ Output[1][1] < Output[2][1]
\* The position of the last row of the input that has key k: with the rows
\* of the sheets merged in workbook order, the row of the latest sheet.
LastWithKey(k) ==
  CHOOSE n \in 1..Len(Input) :
     /\ KeyOf(Input[n]) = k
     /\ \A m \in 1..Len(Input) : KeyOf(Input[m]) = k => m <= n

\* C21: when the merged relation holds the sheets' rows in workbook order and
\* unique_keys is called with the default any_value projection, every output
\* row is the row of the latest sheet that has its key.
C21_LaterSheetWins ==
  (Applied /\ input_table = table_name /\ FullProjection) =>
     \A i \in 1..Len(Output) : Output[i] = Input[LastWithKey(Output[i][1])]
\* C22: select_output_excel ends after at most one round per existing file
\* and returns a path that does not exist: output_{entry}.xlsx if that is
\* free, otherwise output_{entry}_{k}.xlsx for the smallest free k >= 2.
C22_FreshOutputPath ==
  /\ idx <= Cardinality(files) + 2
  /\ sopc = "returned" =>
       /\ output_excel \notin files
       /\ output_path \notin files => output_excel = output_path
       /\ output_path \in files =>
            \E k \in 2..(MaxFiles + 1) :
               /\ output_excel = output_path_idx(k)
               /\ \A m \in 2..(k - 1) : output_path_idx(m) \in files

\* C22 witness: output_{entry}.xlsx, _2 and _3 exist and _4 was returned
\* although _5 exists too.
C22_Witness ==
  /\ sopc = "returned"
  /\ {output_path, output_path_idx(2), output_path_idx(3), output_path_idx(5)} \subseteq files
  /\ output_excel = output_path_idx(4)
\* The step creates, drops or changes the rows of relation nm.
Written(nm) ==
  \/ (nm \in DOMAIN store) # (nm \in DOMAIN store')
  \/ /\ nm \in DOMAIN store
     /\ nm \in DOMAIN store'
     /\ store[nm] # store'[nm]

\* The staging relation worker i has named, once it has named one.
Own(i) ==
  IF task[i].pc \in {"idle", "skipped"} THEN {} ELSE {task[i].temp_table}

\* C23: a step of a worker writes no relation but the worker's own staging
\* relation, which is neither the destination nor another worker's staging
\* relation; a step that writes the destination is a step of the coordinator.
C23_SingleWriter ==
  [][/\ task' # task =>
          \A nm \in (DOMAIN store) \cup (DOMAIN store') :
             Written(nm) =>
                \E i \in Idx :
                   /\ task'[i] # task[i]
                   /\ nm \in Own(i)
                   /\ nm # table_name
                   /\ \A j \in Idx \ {i} : nm \notin Own(j)
     /\ Written(table_name) => (task' = task /\ coordVars' # coordVars)]_vars

\* C23 witness: the coordinator has created the destination while the
\* staging relations of two workers exist.
C23_Witness ==
  /\ first_table_created
  /\ Exists(table_name)
  /\ \E i, j \in Idx :
        /\ i # j
        /\ Own(i) # {} /\ Own(j) # {}
        /\ \A nm \in Own(i) \cup Own(j) : Exists(nm)
\* The sheet indexes of the results the merge loop has taken, in that order.
FoldOrder == [k \in 1..Len(completed_sheets) |-> completed_sheets[k].sheet_index]

\* The results whose fold has been executed: all that were taken, but for
\* the one the loop is about to fold.
Folded ==
  IF pc = "fold" THEN SubSeq(completed_sheets, 1, Len(completed_sheets) - 1)
  ELSE completed_sheets

\* The rows of the staging relations of results, one relation after another.
RECURSIVE FoldedRows(_)
FoldedRows(results) ==
  IF results = <<>> THEN <<>>
  ELSE SheetRows(results[1].sheet_index, results[1].row_count)
         \o FoldedRows(Tail(results))

Position(s, x) == CHOOSE k \in 1..Len(s) : s[k] = x

\* Each sheet has one future, each result is taken once, and while no failure
\* was observed the destination holds the rows of the folded staging
\* relations in the order they were folded: the first created it, the others
\* were appended.  A successful call has folded every sheet.
FoldedOnce ==
  /\ Len(future_to_sheet) <= Len(sheet_names)
  /\ \A k \in 1..Len(future_to_sheet) :
        future_to_sheet[k].sheet_name = sheet_names[k]
  /\ \A a, b \in 1..Len(FoldOrder) : FoldOrder[a] = FoldOrder[b] => a = b
  /\ (e = None /\ first_table_created) =>
        /\ Exists(table_name)
        /\ store[table_name] = FoldedRows(Folded)
  /\ (e = None /\ ~ first_table_created) => Folded = <<>>
  /\ (pc = "returned" /\ ~ SkipsEmpty(sheet_names)) =>
        /\ Len(completed_sheets) = Len(sheet_names)
        /\ first_table_created

CancelStepDone == pc \in {"drop_temp_tables", "drop_table", "raise", "raised"}

\* C25: once the cancel step has run, no future is pending any more and no
\* worker that has not started starts; from the moment the failure was
\* observed, no step adds a row to the destination or creates it.
C25_CancellationAfterFailure ==
  /\ [](CancelStepDone => \A i \in Submitted : Fut(i).state # "PENDING")
  /\ [][/\ CancelStepDone =>
             \A i \in Idx : task[i].pc = "idle" => task'[i].pc \in {"idle", "skipped"}
        /\ e # None => (Written(table_name) => table_name \notin DOMAIN store')]_vars

\* C25 witness: the call has raised after a worker's failure; the worker of
\* the other sheet had not started, was cancelled and was skipped.
C25_Witness ==
  /\ pc = "raised"
  /\ AnyWorkerFailed
  /\ \E i \in Idx :
        /\ Fut(i).state = "CANCELLED"
        /\ task[i].pc = "skipped"
        /\ store = store0
\* C26: a call with max_workers >= 1 eventually returns or raises.
C26_Termination == (max_workers >= 1) => <>Terminal

\* C26 witness: a call on MaxSheets sheets with one worker thread has ended
\* after its merge loop was handed every future, a cancelled one included.
C26_Witness ==
  /\ Terminal
  /\ max_workers = 1
  /\ Len(sheet_names) = MaxSheets
  /\ Len(future_to_sheet) = MaxSheets
  /\ \E i \in Idx : Fut(i).state = "CANCELLED"
  /\ threads = {}
  /\ work_queue = <<>>
\* The positions of the registered keys that are a prefix of entry_name.
PrefixKeys ==
  {k \in 1..Len(entry_registry) :
     /\ Len(entry_registry[k]) <= Len(entry_name)
     /\ \A c \in 1..Len(entry_registry[k]) : entry_registry[k][c] = entry_name[c]}

\* The handlers handle_entry is to call: the one registered under entry_name,
\* else the first registered under a prefix of it, else none.
ExpectedCalls ==
  IF \E k \in 1..Len(entry_registry) : entry_registry[k] = entry_name
    THEN <<entry_name>>
    ELSE IF PrefixKeys = {} THEN <<>>
    ELSE <<entry_registry[CHOOSE k \in PrefixKeys : \A m \in PrefixKeys : k <= m]>>

\* C27: handle_entry calls at most one handler; when it has ended it has
\* called exactly the handler of the exact match, else of the first
\* registered prefix, else none, and it has raised exactly when the handler
\* it called raised.
C27_HandlerDispatch ==
  /\ Len(handler_calls) <= 1
  /\ hepc \in {"returned", "raised"} =>
       /\ handler_calls = ExpectedCalls
       /\ hepc = "raised" <=> (ExpectedCalls # <<>> /\ handler_raises)

\* C27 witness: with the keys "a" and "ab" registered in that order, the
\* entry "aba" was handled by the handler of "a".
C27_Witness ==
  /\ hepc = "returned"
  /\ entry_registry = <<<<"a">>, <<"a", "b">>>>
  /\ entry_name = <<"a", "b", "a">>
  /\ handler_calls = <<<<"a">>>>
\* C28: when both merges of a workbook have returned, either neither has a
\* destination (the workbook has no sheet) or both have one and the two hold
\* the same rows the same number of times.
C28_SequentialAgrees ==
  (pc = "returned" /\ uspc = "returned") =>
     /\ Exists(table_name) <=> Exists(seq_table_name)
     /\ Exists(table_name) => SameRows(store[table_name], store[seq_table_name])

\* C28 witness: a workbook of more than UnionAllLimit sheets, each with a row,
\* was merged by both; the concurrent merge folded them in another order.
C28_Witness ==
  /\ pc = "returned"
  /\ uspc = "returned"
  /\ Len(sheet_names) > UnionAllLimit
  /\ Len(store[seq_table_name]) = Len(sheet_names)
  /\ store[table_name] # store[seq_table_name]

\* The positions of union_sheets_concurrent before the DROP TABLE IF EXISTS
\* of line 287 has run.
BeforeDrop == pc \in {"get_sheet_names", "drop_existing"}

\* C29: on a workbook with sheets, once the DROP of line 287 has run a
\* relation named table_name holds no row of the relation that existed when
\* the call began; and after a successful return the destination holds only
\* rows of this call's sheets, each sheet's rows as many times as the sheet
\* has rows, whatever the store held when the call began.  A second call
\* with the same input begins with the first call's destination as the
\* earlier relation, so its destination holds the same rows as the first's.
C29_NoStaleRows ==
  /\ (~ BeforeDrop /\ ~ SkipsEmpty(sheet_names) /\ Exists(table_name)) =>
        StaleRow \notin Range(store[table_name])
  /\ (pc = "returned" /\ ~ SkipsEmpty(sheet_names)) =>
        /\ Exists(table_name)
        /\ Range(store[table_name]) \subseteq Idx
        /\ \A i \in Idx :
              RowsFrom(store[table_name], i) = Fut(i).result.row_count

\* C29 witness: the destination existed with a row of an earlier call when
\* the call began, and the call returned a destination with this call's row.
C29_Witness ==
  /\ pc = "returned"
  /\ table_name \in DOMAIN store0
  /\ StaleRow \in Range(store0[table_name])
  /\ Exists(table_name)
  /\ Len(store[table_name]) > 0
  /\ StaleRow \notin Range(store[table_name])


\* The entries among the first n whose handling is h.
EntriesWith(h, n) == {k \in 1..n : entries[k] = h}

====
